---- MODULE Spec2Model ----
(***************************************************************************)
(* pyipn/constellation.py: the Walker-constellation geometry engine        *)
(* (Constellation), the per-satellite state (Satellite) and the registry   *)
(* with its export (SatelliteCollection).                                  *)
(*                                                                         *)
(* Numbers.  Every angle of the program is a real of the form              *)
(*      (n / d) * (180/pi)^k                                               *)
(* with n/d a reduced fraction and k the number of radian->degree          *)
(* conversions applied minus the number of degree->radian conversions.     *)
(* It is held as the record [n, d, k]; 0 is always [0, 1, 0] because       *)
(* 0 * x = 0.  Multiplying by pi/180 or 180/pi is therefore never the      *)
(* identity on a non-zero value.                                           *)
(***************************************************************************)
EXTENDS Integers, Sequences, FiniteSets, TLC

(* ------------------------------------------------------------------ *)
(* Bounds of the model                                                 *)
(* ------------------------------------------------------------------ *)
MaxSats == 14
MaxPlanes == 2
MaxPhasing == 1
BigSats == 361
MaxDirect == 2
MaxAdds == 1

(* ------------------------------------------------------------------ *)
(* Real arithmetic                                                     *)
(* ------------------------------------------------------------------ *)
Abs(x) == IF x < 0 THEN -x ELSE x

RECURSIVE Gcd(_, _)
Gcd(a, b) == IF b = 0 THEN a ELSE Gcd(b, a % b)

Norm(n, d, k) ==
    IF n = 0 THEN [n |-> 0, d |-> 1, k |-> 0]
    ELSE LET g == Gcd(Abs(n), d) IN [n |-> n \div g, d |-> d \div g, k |-> k]

Num(x) == Norm(x, 1, 0)

\* a / b for integers a and b > 0 (Python's true division)
TrueDiv(a, b) == Norm(a, b, 0)

\* x + y for two reals of the same unit power (0 is of every power)
Add(x, y) ==
    IF x.n = 0 THEN y
    ELSE IF y.n = 0 THEN x
    ELSE Norm(x.n * y.d + y.n * x.d, x.d * y.d, x.k)

\* value * (pi / 180)
to_rad(x) == Norm(x.n, x.d, x.k - 1)

\* value * (180 / pi)
to_deg(x) == Norm(x.n, x.d, x.k + 1)

(* ------------------------------------------------------------------ *)
(* Strings are sequences of characters                                 *)
(* ------------------------------------------------------------------ *)
DigitChar == <<"0", "1", "2", "3", "4", "5", "6", "7", "8", "9">>

RECURSIVE str(_)
str(n) == IF n < 10 THEN <<DigitChar[n + 1]>>
          ELSE str(n \div 10) \o <<DigitChar[(n % 10) + 1]>>

RECURSIVE replace(_, _, _)
replace(s, old, new) ==
    IF s = <<>> THEN <<>>
    ELSE (IF Head(s) = old THEN new ELSE <<Head(s)>>) \o replace(Tail(s), old, new)

clean_name(name) ==
    replace(replace(replace(name, " ", <<"_">>), "(", <<>>), ")", <<>>)

(* ------------------------------------------------------------------ *)
(* Satellite                                                           *)
(* ------------------------------------------------------------------ *)
heavenly_body_radius ==
    [b \in {"earth", "luna", "mars", "venus", "mercury", "sol", "jupiter",
            "saturn", "uranus", "neptune", "pluto"} |->
        CASE b = "earth" -> 6371
          [] b = "luna" -> 1737
          [] b = "mars" -> 3390
          [] b = "venus" -> 6052
          [] b = "mercury" -> 2440
          [] b = "sol" -> 695700
          [] b = "jupiter" -> 69911
          [] b = "saturn" -> 58232
          [] b = "uranus" -> 25362
          [] b = "neptune" -> 24622
          [] b = "pluto" -> 1188]

_get_radius(focus) == heavenly_body_radius[focus]

_convert_to_rads(inclination, right_ascension, perigee, ta) ==
    <<to_rad(inclination), to_rad(right_ascension), to_rad(perigee), to_rad(ta)>>

_convert_to_degs(inclination_r, right_ascension_r, perigee_r, ta_r) ==
    <<to_deg(inclination_r), to_deg(right_ascension_r), to_deg(perigee_r), to_deg(ta_r)>>

\* Whole degrees of a radian-valued angle x = q * (180/pi)^k, i.e. the floor of
\* q * (180/pi)^(k+1), with 180/pi taken as 20340/355 (pi = 355/113).
WholeDegrees(x) ==
    CASE x.k = -1 -> x.n \div x.d
      [] x.k = 0 -> (x.n * 20340) \div (x.d * 355)
      [] OTHER -> (x.n * 20340 * 20340) \div (x.d * 355 * 355)

\* KeplerianElements.with_altitude and SkyCoord are external libraries.  The
\* satellite sits at perigee; its sky position is a fixed function of the
\* radian-valued angles handed over: longitude raan + arg_pe (exact on an
\* equatorial orbit), latitude a fixed function of the inclination.
_compute_position(inclination_r, perigee_r, right_ascension_r) ==
    [ra |-> (WholeDegrees(right_ascension_r) + WholeDegrees(perigee_r)) % 360,
     dec |-> (WholeDegrees(inclination_r) % 181) - 90]

Satellite(name, altitude, eccentricity, inclination, right_ascension, perigee, ta, rads) ==
    LET focus == "earth"
        conv == IF ~rads
                THEN _convert_to_rads(inclination, right_ascension, perigee, ta)
                ELSE _convert_to_degs(inclination, right_ascension, perigee, ta)
        degs == IF ~rads THEN <<inclination, right_ascension, perigee, ta>> ELSE conv
        radv == IF ~rads THEN conv ELSE <<inclination, right_ascension, perigee, ta>>
        pos == _compute_position(radv[1], radv[3], radv[2])
    IN [name |-> name,
        altitude |-> altitude,
        focus |-> focus,
        true_alt |-> altitude + _get_radius(focus),
        eccentricity |-> eccentricity,
        effective_area |-> 1,
        inclination |-> degs[1],
        right_ascension |-> degs[2],
        perigee |-> degs[3],
        ta |-> degs[4],
        inclination_r |-> radv[1],
        right_ascension_r |-> radv[2],
        perigee_r |-> radv[3],
        ta_r |-> radv[4],
        ra |-> pos.ra,
        dec |-> pos.dec]

from_TLE(tle) ==
    Satellite(clean_name(tle.name), tle.a, tle.ecc, Num(tle.inc), Num(tle.raan),
              Num(tle.argp), Num(0), FALSE)

(* ------------------------------------------------------------------ *)
(* Constellation: the table computations                               *)
(* ------------------------------------------------------------------ *)
\* slip: the phasing angle taken over the planes instead of the satellites
_corrected_planes_per_plane(num_sats, num_planes, phasing) ==
    <<num_sats \div num_planes, TrueDiv(360 * phasing, num_planes)>>

\* int(num_sats / num_planes) and 360 * phasing / num_sats; both divisors non-zero
_corrected_planes(num_sats, num_planes, phasing) ==
    <<num_sats \div num_planes, TrueDiv(360 * phasing, num_sats)>>

\* list(range(0, 360, step)) for step > 0
RECURSIVE range360(_, _)
range360(from, step) ==
    IF from >= 360 THEN <<>> ELSE <<from>> \o range360(from + step, step)

RECURSIVE extend(_, _, _)
extend(all, perigees, times) ==
    IF times = 0 THEN all ELSE extend(all \o perigees, perigees, times - 1)

_perigee_positions(num_sats, sats_per_plane) ==
    LET perigees == range360(0, 360 \div sats_per_plane)
    IN extend(<<>>, perigees, num_sats)

\* the loop  for i in range(sats_per_plane, num_sats): t[i] = t[i - spp] + step
\* (i is the 0-based index of the source; sequences are 1-based)
RECURSIVE plane_loop(_, _, _, _, _)
plane_loop(t, i, sats_per_plane, num_sats, step) ==
    IF i >= num_sats THEN t
    ELSE plane_loop([t EXCEPT ![i + 1] = Add(t[i + 1 - sats_per_plane], step)],
                    i + 1, sats_per_plane, num_sats, step)

\* slip: the circle divided by the satellites of a plane instead of the planes
_calculate_raan_per_sat(num_sats, num_planes, sats_per_plane) ==
    plane_loop([i \in 1..num_sats |-> Num(0)], sats_per_plane, sats_per_plane,
               num_sats, TrueDiv(360, sats_per_plane))

_calculate_raan(num_sats, num_planes, sats_per_plane) ==
    plane_loop([i \in 1..num_sats |-> Num(0)], sats_per_plane, sats_per_plane,
               num_sats, TrueDiv(360, num_planes))

\* slip: each slot advanced from the slot before it instead of the plane before it
_calculate_ta_prev_slot(num_sats, sats_per_plane, correct_phasing) ==
    plane_loop([i \in 1..num_sats |-> Num(0)], sats_per_plane, 1,
               num_sats, correct_phasing)

_calculate_ta(num_sats, sats_per_plane, correct_phasing) ==
    plane_loop([i \in 1..num_sats |-> Num(0)], sats_per_plane, sats_per_plane,
               num_sats, correct_phasing)

_build_satellites(name, start_num, num_sats, altitude, e, inclination, raan, perigees, ta) ==
    [i \in 1..num_sats |->
        Satellite(name \o str((i - 1) + start_num + 1), altitude, e, Num(inclination),
                  raan[i], Num(perigees[i]), ta[i], TRUE)]

(* ------------------------------------------------------------------ *)
(* SatelliteCollection: the operations as functions of the object      *)
(* ------------------------------------------------------------------ *)
\* OrderedDict.__setitem__: an existing key keeps its place and gets the new
\* value, a new key goes to the end
dict_set(d, sat) ==
    IF \E i \in 1..Len(d) : d[i].name = sat.name
    THEN [i \in 1..Len(d) |-> IF d[i].name = sat.name THEN sat ELSE d[i]]
    ELSE Append(d, sat)

add_satellite(d, n, satellite) ==
    [satellites |-> dict_set(d, satellite), n_satellites |-> n + 1]

RECURSIVE init_loop(_, _)
init_loop(self, sats) ==
    IF sats = <<>> THEN self
    ELSE init_loop(add_satellite(self.satellites, self.n_satellites, Head(sats)), Tail(sats))

SatelliteCollection(sats, np) ==
    LET self == init_loop([satellites |-> <<>>, n_satellites |-> 0], sats)
    IN [satellites |-> self.satellites,
        n_satellites |-> Len(self.satellites),
        normal_pointing |-> np]

\* cls(*sats): the normal_pointing argument is not handed on
from_tle_file(tles, np) ==
    SatelliteCollection([i \in 1..Len(tles) |-> from_TLE(tles[i])], FALSE)

from_constellation(constellation_satellites, np) ==
    SatelliteCollection(constellation_satellites, np)

default_grb ==
    [ra |-> 80, dec |-> -30, distance |-> 500, K |-> 500, t_rise |-> 1, t_decay |-> 7]

\* slip: the altitude above the body's centre exported for the altitude
as_dict_true_alt(d, np, grb_dict) ==
    [seed |-> 1234,
     grb |-> IF grb_dict = <<>> THEN default_grb ELSE grb_dict[1],
     detectors |->
        [i \in 1..Len(d) |->
            [name |-> d[i].name,
             ra |-> d[i].ra,
             dec |-> d[i].dec,
             altitude |-> d[i].true_alt,
             time |-> "2010-01-01T00:00:00",
             pointing |-> IF np THEN [ra |-> d[i].ra, dec |-> d[i].dec]
                          ELSE [ra |-> 80, dec |-> -30],
             effective_area |-> d[i].effective_area]]]

\* slip: a satellite that does not point to nadir pointed at the transient event
as_dict_at_grb(d, np, grb_dict) ==
    LET grb == IF grb_dict = <<>> THEN default_grb ELSE grb_dict[1]
    IN [seed |-> 1234,
        grb |-> grb,
        detectors |->
           [i \in 1..Len(d) |->
               [name |-> d[i].name,
                ra |-> d[i].ra,
                dec |-> d[i].dec,
                altitude |-> d[i].altitude,
                time |-> "2010-01-01T00:00:00",
                pointing |-> IF np THEN [ra |-> d[i].ra, dec |-> d[i].dec]
                             ELSE [ra |-> grb.ra, dec |-> grb.dec],
                effective_area |-> d[i].effective_area]]]

\* grb_dict is <<>> for None and <<g>> for a supplied mapping g; the detectors
\* mapping is the sequence of its (key, value) pairs in insertion order
as_dict(d, np, grb_dict) ==
    [seed |-> 1234,
     grb |-> IF grb_dict = <<>> THEN default_grb ELSE grb_dict[1],
     detectors |->
        [i \in 1..Len(d) |->
            [name |-> d[i].name,
             ra |-> d[i].ra,
             dec |-> d[i].dec,
             altitude |-> d[i].altitude,
             time |-> "2010-01-01T00:00:00",
             pointing |-> IF np THEN [ra |-> d[i].ra, dec |-> d[i].dec]
                          ELSE [ra |-> 80, dec |-> -30],
             effective_area |-> d[i].effective_area]]]

(* ------------------------------------------------------------------ *)
(* Inputs                                                              *)
(* ------------------------------------------------------------------ *)
\* (num_sats, num_planes): every small pair, and one plane too crowded for a
\* whole-degree perigee step
Configs == ((0..MaxSats) \X (0..MaxPlanes)) \cup {<<BigSats, 1>>}
Phasings == 0..MaxPhasing
Inclinations == {0, 53}
Altitudes == {550}
base_name == <<"d", "e", "t">>

\* satellites a caller builds directly: one named like a constellation slot,
\* and two that share a name but differ in orbit
SatPool ==
    {Satellite(<<"d", "e", "t", "1">>, 400, 0, Num(10), Num(20), Num(30), Num(0), FALSE),
     Satellite(<<"A", "_", "B">>, 500, 0, Num(1), Num(2), Num(0), Num(0), TRUE),
     Satellite(<<"A", "_", "B">>, 700, 0, Num(45), Num(90), Num(15), Num(0), FALSE)}

TlePool ==
    {[name |-> <<"A", " ", "(", "B", ")">>, a |-> 6900, ecc |-> 0, inc |-> 51, raan |-> 30, argp |-> 40],
     [name |-> <<"C">>, a |-> 7000, ecc |-> 0, inc |-> 98, raan |-> 120, argp |-> 0]}

SeqsUpTo(S, n) == UNION {[1..m -> S] : m \in 0..n}

GrbArgs ==
    {<<>>, <<[ra |-> 10, dec |-> 20, distance |-> 100, K |-> 50, t_rise |-> 2, t_decay |-> 3]>>}

(* ------------------------------------------------------------------ *)
(* State                                                               *)
(* ------------------------------------------------------------------ *)
VARIABLES
    pc,                 \* the next step of Constellation.__init__, "done" or "error"
    num_sats, num_planes, phasing, inclination, altitude,
    sats_per_plane, correct_phasing, perigee_positions, raan, ta,
    constellation_satellites,   \* Constellation._satellites
    cpc,                \* "none" before the collection exists, "live" after
    satellites, n_satellites, normal_pointing,
    ret,                \* what the last call returned: <<>> (None) or <<mapping>>
    added,              \* history: every Satellite handed to add_satellite
    requested,          \* history: the normal_pointing argument of the constructor
    nadds               \* history: number of add calls after construction

cvars == <<pc, num_sats, num_planes, phasing, inclination, altitude, sats_per_plane,
           correct_phasing, perigee_positions, raan, ta, constellation_satellites>>
kvars == <<cpc, satellites, n_satellites, normal_pointing, ret, added, requested, nadds>>
vars == <<cvars, kvars>>

Init ==
    /\ pc = "new"
    /\ num_sats = 0 /\ num_planes = 0 /\ phasing = 0 /\ inclination = 0 /\ altitude = 0
    /\ sats_per_plane = 0 /\ correct_phasing = Num(0)
    /\ perigee_positions = <<>> /\ raan = <<>> /\ ta = <<>>
    /\ constellation_satellites = <<>>
    /\ cpc = "none"
    /\ satellites = <<>> /\ n_satellites = 0 /\ normal_pointing = FALSE
    /\ ret = <<>> /\ added = <<>> /\ requested = FALSE /\ nadds = 0

(* ------------------------------------------------------------------ *)
(* Constellation.__init__, one action per statement group              *)
(* ------------------------------------------------------------------ *)
tables == <<sats_per_plane, correct_phasing, perigee_positions, raan, ta,
            constellation_satellites>>
params == <<num_sats, num_planes, phasing, inclination, altitude>>

Constellation(ns, np, ph, inc, alt) ==
    /\ pc = "new" /\ cpc = "none"
    /\ num_sats' = ns /\ num_planes' = np /\ phasing' = ph
    /\ inclination' = inc /\ altitude' = alt
    /\ pc' = "corrected_planes"
    /\ UNCHANGED <<tables, kvars>>

\* ZeroDivisionError when num_planes = 0 or num_sats = 0
CorrectedPlanes ==
    /\ pc = "corrected_planes"
    /\ IF num_planes = 0 \/ num_sats = 0
       THEN /\ pc' = "error"
            /\ UNCHANGED <<sats_per_plane, correct_phasing>>
       ELSE /\ sats_per_plane' = _corrected_planes(num_sats, num_planes, phasing)[1]
            /\ correct_phasing' = _corrected_planes(num_sats, num_planes, phasing)[2]
            /\ pc' = "perigee_positions"
    /\ UNCHANGED <<params, perigee_positions, raan, ta, constellation_satellites, kvars>>

\* ZeroDivisionError when sats_per_plane = 0; ValueError (range step 0) when
\* int(360 / sats_per_plane) = 0
PerigeePositions ==
    /\ pc = "perigee_positions"
    /\ IF sats_per_plane = 0 \/ 360 \div sats_per_plane = 0
       THEN /\ pc' = "error"
            /\ UNCHANGED perigee_positions
       ELSE /\ perigee_positions' = _perigee_positions(num_sats, sats_per_plane)
            /\ pc' = "calculate_raan"
    /\ UNCHANGED <<params, sats_per_plane, correct_phasing, raan, ta,
                   constellation_satellites, kvars>>

CalculateRaan ==
    /\ pc = "calculate_raan"
    /\ raan' = _calculate_raan(num_sats, num_planes, sats_per_plane)
    /\ pc' = "calculate_ta"
    /\ UNCHANGED <<params, sats_per_plane, correct_phasing, perigee_positions, ta,
                   constellation_satellites, kvars>>

CalculateTa ==
    /\ pc = "calculate_ta"
    /\ ta' = _calculate_ta(num_sats, sats_per_plane, correct_phasing)
    /\ pc' = "build_satellites"
    /\ UNCHANGED <<params, sats_per_plane, correct_phasing, perigee_positions, raan,
                   constellation_satellites, kvars>>

BuildSatellites ==
    /\ pc = "build_satellites"
    /\ constellation_satellites' =
          _build_satellites(base_name, 0, num_sats, altitude, 0, inclination, raan,
                            perigee_positions, ta)
    /\ pc' = "done"
    /\ UNCHANGED <<params, sats_per_plane, correct_phasing, perigee_positions, raan, ta,
                   kvars>>

(* ------------------------------------------------------------------ *)
(* SatelliteCollection: construction, add, export                      *)
(* ------------------------------------------------------------------ *)
Built(self, sats, np) ==
    /\ cpc' = "live"
    /\ satellites' = self.satellites
    /\ n_satellites' = self.n_satellites
    /\ normal_pointing' = self.normal_pointing
    /\ ret' = <<>>
    /\ added' = sats
    /\ requested' = np
    /\ nadds' = 0
    /\ UNCHANGED cvars

New(sats, np) ==
    /\ pc = "new" /\ cpc = "none"
    /\ Built(SatelliteCollection(sats, np), sats, np)

FromTleFile(tles, np) ==
    /\ pc = "new" /\ cpc = "none"
    /\ Built(from_tle_file(tles, np), [i \in 1..Len(tles) |-> from_TLE(tles[i])], np)

FromConstellation(np) ==
    /\ pc = "done" /\ cpc = "none"
    /\ Built(from_constellation(constellation_satellites, np), constellation_satellites, np)

\* assert isinstance(satellite, Satellite); the entry is set and the count raised
AddSatellite(satellite) ==
    /\ cpc = "live" /\ nadds < MaxAdds
    /\ satellite \in SatPool \cup {from_TLE(t) : t \in TlePool}
    /\ satellites' = add_satellite(satellites, n_satellites, satellite).satellites
    /\ n_satellites' = add_satellite(satellites, n_satellites, satellite).n_satellites
    /\ added' = Append(added, satellite)
    /\ nadds' = nadds + 1
    /\ ret' = <<>>
    /\ UNCHANGED <<cvars, cpc, normal_pointing, requested>>

\* assert isinstance(tle, TLE); self.add_satellite(Satellite.from_TLE(tle))
AddSatelliteFromTle(tle) ==
    /\ tle \in TlePool
    /\ AddSatellite(from_TLE(tle))

AsDict(grb_dict) ==
    /\ cpc = "live"
    /\ ret' = <<as_dict(satellites, normal_pointing, grb_dict)>>
    /\ UNCHANGED <<cvars, cpc, satellites, n_satellites, normal_pointing, added,
                   requested, nadds>>

Next ==
    \/ \E c \in Configs, ph \in Phasings, inc \in Inclinations, alt \in Altitudes :
          Constellation(c[1], c[2], ph, inc, alt)
    \/ CorrectedPlanes
    \/ PerigeePositions
    \/ CalculateRaan
    \/ CalculateTa
    \/ BuildSatellites
    \/ \E sats \in SeqsUpTo(SatPool, MaxDirect), np \in BOOLEAN : New(sats, np)
    \/ \E tles \in SeqsUpTo(TlePool, MaxDirect), np \in BOOLEAN : FromTleFile(tles, np)
    \/ \E np \in BOOLEAN : FromConstellation(np)
    \/ \E sat \in SatPool : AddSatellite(sat)
    \/ \E tle \in TlePool : AddSatelliteFromTle(tle)
    \/ \E g \in GrbArgs : AsDict(g)

Spec == Init /\ [][Next]_vars

(* ------------------------------------------------------------------ *)
(* Properties                                                          *)
(* ------------------------------------------------------------------ *)
Finished == pc \in {"done", "error"}
Divisible == num_planes >= 1 /\ num_sats % num_planes = 0
PlaneOf(i) == (i - 1) \div (num_sats \div num_planes)
\* x * i for an integer i
Scale(x, i) == Norm(x.n * i, x.d, x.k)

\* The constellation holds num_sats satellites; slot i was handed raan[i]; the
\* slots of plane p (sats_per_plane consecutive slots) all have RAAN
\* p * 360 / num_planes, so plane 0 has RAAN 0 and each next plane 360/num_planes more.
RaanByPlane ==
    /\ pc = "done"
    /\ Len(constellation_satellites) = num_sats
    /\ Len(raan) = num_sats
    /\ \A i \in 1..num_sats :
          /\ raan[i] = Scale(TrueDiv(360, num_planes), PlaneOf(i))
          /\ constellation_satellites[i].right_ascension_r = raan[i]

\* C1 as stated: for every (num_sats, num_planes) with num_planes >= 1 and
\* num_sats % num_planes = 0, construction produces exactly num_sats satellites
\* whose RAAN is shared within a plane, 0 for the first plane and 360/num_planes
\* larger for each next plane.
C1_RaanEveryDivisible == (Finished /\ Divisible) => RaanByPlane

\* C1 amended: the same, for num_sats >= 1 and at most 360 satellites per plane
\* (with num_sats = 0 the phasing division fails, with more than 360 satellites
\* per plane the perigee step is 0; both end construction in an error).
C1_RaanByPlane ==
    (Finished /\ Divisible /\ num_sats >= 1 /\ num_sats \div num_planes <= 360)
        => RaanByPlane

C1_Witness ==
    /\ pc = "done" /\ num_sats = 6 /\ num_planes = 2
    /\ raan[3] = Num(0) /\ raan[4] = Num(180)

\* C2: every Satellite of the constellation holds the handed angles as its
\* degree values, and those values times pi/180 as its radian values.
C2_AnglesAreDegrees ==
    pc = "done" =>
        \A i \in 1..Len(constellation_satellites) :
            LET s == constellation_satellites[i] IN
            /\ s.inclination = Num(inclination)
            /\ s.right_ascension = raan[i]
            /\ s.perigee = Num(perigee_positions[i])
            /\ s.ta = ta[i]
            /\ s.inclination_r = to_rad(Num(inclination))
            /\ s.right_ascension_r = to_rad(raan[i])
            /\ s.perigee_r = to_rad(Num(perigee_positions[i]))
            /\ s.ta_r = to_rad(ta[i])

\* C3: n_satellites is the number of entries of the satellites mapping in every
\* state of a collection, duplicate names included.
C3_CountIsMappingSize == cpc = "live" => n_satellites = Len(satellites)

\* C4: when num_planes is 0 or does not divide num_sats, construction ends in an
\* error and produces no satellite list.
C4_FailsFast ==
    (Finished /\ (num_planes = 0 \/ num_sats % num_planes # 0))
        => (pc = "error" /\ constellation_satellites = <<>>)

C5_Scenario ==
    /\ pc = "done"
    /\ num_sats = 6 /\ num_planes = 2 /\ phasing = 1
    /\ inclination = 53 /\ altitude = 550

\* C5 as stated: Constellation(6, 2, 1, 53, 550, 0) has sats_per_plane 3, corrected
\* phasing 60 and true anomalies [0, 60, 120, 0, 60, 120].
C5_TaWithinPlane ==
    C5_Scenario =>
        /\ sats_per_plane = 3
        /\ correct_phasing = Num(60)
        /\ ta = <<Num(0), Num(60), Num(120), Num(0), Num(60), Num(120)>>

\* C5 amended: Constellation(6, 2, 1, 53, 550, 0) has sats_per_plane 3, corrected
\* phasing 60 and true anomalies [0, 0, 0, 60, 60, 60].
C5_TaPerPlane ==
    C5_Scenario =>
        /\ sats_per_plane = 3
        /\ correct_phasing = Num(60)
        /\ ta = <<Num(0), Num(0), Num(0), Num(60), Num(60), Num(60)>>

C5_Witness == C5_Scenario /\ Len(ta) = 6 /\ Len(constellation_satellites) = 6

\* C6: in an export of a collection whose nadir flag is off every detector points
\* at {ra: 80, dec: -30}, whatever grb_dict was supplied; with the flag on every
\* detector points at its own (ra, dec).
C6_PointingRule ==
    ret # <<>> =>
        \A i \in 1..Len(ret[1].detectors) :
            LET e == ret[1].detectors[i] IN
            /\ ~normal_pointing => e.pointing = [ra |-> 80, dec |-> -30]
            /\ normal_pointing => e.pointing = [ra |-> e.ra, dec |-> e.dec]

C6_Witness ==
    /\ ret # <<>> /\ ~normal_pointing
    /\ ret[1].grb.ra # 80
    /\ Len(ret[1].detectors) >= 3
    /\ \E i \in 1..Len(ret[1].detectors) : ret[1].detectors[i].ra # 80

\* index in the history of the first / the last Satellite added under a name
FirstAdded(nm) ==
    CHOOSE k \in 1..Len(added) :
        added[k].name = nm /\ \A m \in 1..(k - 1) : added[m].name # nm
LastAdded(nm) ==
    CHOOSE k \in 1..Len(added) :
        added[k].name = nm /\ \A m \in (k + 1)..Len(added) : added[m].name # nm

Unchanged == UNCHANGED <<satellites, n_satellites, normal_pointing>>
InInsertionOrder(det) ==
    \A i, j \in 1..Len(det) :
        i < j => FirstAdded(det[i].name) < FirstAdded(det[j].name)
Reproduces(e, s) ==
    e.name = s.name /\ e.altitude = s.altitude /\ e.ra = s.ra /\ e.dec = s.dec

\* C7 as stated: an export leaves the collection unchanged and holds, for every
\* Satellite that was added, an entry under its name with that Satellite's
\* altitude, ra and dec; the entries are in insertion order.
C7_RoundTripEveryAdded ==
    [][ret' # <<>> =>
        LET det == ret'[1].detectors
        IN /\ Unchanged
           /\ InInsertionOrder(det)
           /\ \A k \in 1..Len(added) :
                 \E i \in 1..Len(det) : Reproduces(det[i], added[k])]_vars

\* C7 amended: an export leaves the collection unchanged and holds exactly one
\* entry for every name under which a Satellite was added, with the altitude, ra
\* and dec of the last Satellite added under that name (an earlier Satellite of
\* the same name is replaced); the entries are in the order in which the names
\* were first added.
C7_RoundTripLastAdded ==
    [][ret' # <<>> =>
        LET det == ret'[1].detectors
        IN /\ Unchanged
           /\ InInsertionOrder(det)
           /\ \A i, j \in 1..Len(det) : det[i].name = det[j].name => i = j
           /\ \A i \in 1..Len(det) : \E k \in 1..Len(added) : added[k].name = det[i].name
           /\ \A k \in 1..Len(added) :
                 \E i \in 1..Len(det) :
                    Reproduces(det[i], added[LastAdded(added[k].name)])]_vars

C7_Witness ==
    /\ ret # <<>>
    /\ Len(ret[1].detectors) >= 2
    /\ \E k, m \in 1..Len(added) :
          k < m /\ added[k].name = added[m].name /\ added[k].altitude # added[m].altitude
    /\ \E i \in 1..Len(ret[1].detectors) : ret[1].detectors[i].altitude = 700

\* C8: for sats_per_plane in 1..360 the anchor table has sats_per_plane entries,
\* entry k being k * floor(360 / sats_per_plane), so that the replicated table has
\* num_sats * sats_per_plane entries and slot i gets
\* (i mod sats_per_plane) * floor(360 / sats_per_plane).
C8_PerigeeTable ==
    (pc \in {"calculate_raan", "calculate_ta", "build_satellites", "done"}
        /\ sats_per_plane \in 1..360) =>
        /\ Len(perigee_positions) = num_sats * sats_per_plane
        /\ \A i \in 0..(num_sats - 1) :
              perigee_positions[i + 1] =
                  (i % sats_per_plane) * (360 \div sats_per_plane)

C10_FlagIsArgument == cpc = "live" => normal_pointing = requested

====
